---- MODULE Spec2Model ----
(***************************************************************************)
(* MultiGenieModel / MultiGenieMachine of AI/hyperagent.py: the automaton  *)
(* of a multi-bot question answering conversation, its guard bots_found    *)
(* and the exit actions that capture the actor input into the model.       *)
(*                                                                         *)
(* A payload is the raw string handed to an event.  It is either a text    *)
(* (a sequence of characters over Chars) or the serialisation of a         *)
(* structured JSON document, kept as the document it denotes.  A JSON      *)
(* value is a record tagged by t: null, num, str, arr, obj; a Python dict  *)
(* is its sequence of (k, v) items in insertion order.                     *)
(***************************************************************************)
EXTENDS Integers, Sequences, FiniteSets, TLC

VARIABLES
    state,                \* current state of the machine
    original_question,    \* MultiGenieModel fields
    bots,
    rephrased_questions,
    answer,
    follow_up,
    news_queries,
    news,
    actor_input,          \* GenieModel field read by the exit actions
    event,                \* the last event sent: [trigger, payload]
    err,                  \* how the last send ended: "none" or the exception
    peer,                 \* a second conversation: [state, m, event, err]
    refs                  \* the container object each conversation's field holds

\* the conversation that the first eleven variables hold
conversation == <<state, original_question, bots, rephrased_questions, answer,
                  follow_up, news_queries, news, actor_input, event, err>>

vars == <<conversation, peer, refs>>

-----------------------------------------------------------------------------
(* Bounds of the inputs *)

MaxTextLen == 2           \* characters in a text payload
MaxSources == 1           \* source entries in a news payload

Quote == "\""
Newline == "\n"
Chars == {"a", Quote, Newline}

SeqsUpTo(S, n) == UNION {[1..k -> S] : k \in 0..n}

-----------------------------------------------------------------------------
(* JSON values and the Python operations the code applies to them *)

JNull == [t |-> "null"]
JNum(n) == [t |-> "num", n |-> n]
JStr(s) == [t |-> "str", s |-> s]
JArr(items) == [t |-> "arr", items |-> items]
JObj(items) == [t |-> "obj", items |-> items]
Item(k, v) == [k |-> k, v |-> v]

Ok(v) == [err |-> "none", val |-> v]
Raise(e) == [err |-> e]

Text(s) == [kind |-> "text", chars |-> s]
Doc(v) == [kind |-> "doc", val |-> v]

\* str.strip of JSON whitespace at both ends (the only whitespace of Chars)
RECURSIVE LStrip(_)
LStrip(s) == IF s # <<>> /\ Head(s) = Newline THEN LStrip(Tail(s)) ELSE s

RECURSIVE RStrip(_)
RStrip(s) ==
    IF s # <<>> /\ s[Len(s)] = Newline THEN RStrip(SubSeq(s, 1, Len(s) - 1)) ELSE s

\* json.loads: a text over Chars is a JSON document only when, between
\* optional whitespace, it is a string literal without a raw control character
json_loads(p) ==
    IF p.kind = "doc" THEN Ok(p.val)
    ELSE LET s == RStrip(LStrip(p.chars)) IN
         IF /\ Len(s) >= 2
            /\ s[1] = Quote
            /\ s[Len(s)] = Quote
            /\ \A i \in 2..(Len(s) - 1) : s[i] = "a"
         THEN Ok(JStr(SubSeq(s, 2, Len(s) - 1)))
         ELSE Raise("JSONDecodeError")

\* bool(v)
Truthy(v) ==
    CASE v.t = "null" -> FALSE
      [] v.t = "num" -> v.n # 0
      [] v.t = "str" -> v.s # <<>>
      [] v.t = "arr" -> v.items # <<>>
      [] v.t = "obj" -> v.items # <<>>

HasKey(items, key) == \E i \in 1..Len(items) : items[i].k = key

Lookup(items, key) == items[CHOOSE i \in 1..Len(items) : items[i].k = key].v

\* v[key] for a str key
GetItem(v, key) ==
    IF v.t = "obj"
    THEN IF HasKey(v.items, key) THEN Ok(Lookup(v.items, key)) ELSE Raise("KeyError")
    ELSE Raise("TypeError")

-----------------------------------------------------------------------------
(* MultiGenieModel *)

DefaultBots == [b \in {"Task Dictionary"} |-> "task_dictionary/task_bot.jinja2"]

Model ==
    [original_question |-> original_question,
     bots |-> bots,
     rephrased_questions |-> rephrased_questions,
     answer |-> answer,
     follow_up |-> follow_up,
     news_queries |-> news_queries,
     news |-> news,
     actor_input |-> actor_input]

\* MultiGenieModel(): every field at its default
NewModel ==
    [original_question |-> Text(<<>>),
     bots |-> DefaultBots,
     rephrased_questions |-> <<>>,
     answer |-> JStr(<<>>),
     follow_up |-> JStr(<<>>),
     news_queries |-> <<>>,
     news |-> <<>>,
     actor_input |-> Text(<<>>)]

Conversations == {"A", "B"}

\* the fields whose value is a mutable container
ContainerFields == {"bots", "rephrased_questions", "news_queries", "news"}

\* a container object made for field f of conversation c
Own(c, f) == [owner |-> c, field |-> f]

\* every instance handed the one default object of the class
NewRefs_class_default(c) == [f \in ContainerFields |-> [owner |-> "class", field |-> f]]

\* the containers of a new instance: default_factory=list makes a list per
\* instance, and the default dict of bots is copied for each instance
NewRefs(c) == [f \in ContainerFields |-> Own(c, f)]

\* self.model.f = <new list>: the field is bound to a new object; the
\* exit actions never write into the object a field holds
Rebound(c, rf, old, new) ==
    [f \in ContainerFields |-> IF new[f] # old[f] THEN Own(c, f) ELSE rf[f]]

-----------------------------------------------------------------------------
(* Guard and exit actions.  An exit action maps the model to               *)
(* [err, m]: the exception it ends with ("none" when it returns) and the   *)
(* model as it has left it.                                                *)

\* Accepts without the test that the bot is a known one
Accepts_any_bot(bot_name, bot_value, bts) ==
    IF ~Truthy(bot_value) THEN Ok(FALSE)
    ELSE LET q == GetItem(bot_value, "question") IN
         IF q.err # "none" THEN q ELSE Ok(Truthy(q.val))

\* bot_name in self.model.bots.keys() and bot_value and bot_value["question"]
Accepts(bot_name, bot_value, bts) ==
    IF bot_name \notin DOMAIN bts THEN Ok(FALSE)
    ELSE IF ~Truthy(bot_value) THEN Ok(FALSE)
    ELSE LET q == GetItem(bot_value, "question") IN
         IF q.err # "none" THEN q ELSE Ok(Truthy(q.val))

RECURSIVE AnyAccepted(_, _)
AnyAccepted(items, bts) ==
    IF items = <<>> THEN Ok(FALSE)
    ELSE LET c == Accepts(Head(items).k, Head(items).v, bts) IN
         IF c.err # "none" THEN c
         ELSE IF c.val THEN Ok(TRUE)
         ELSE AnyAccepted(Tail(items), bts)

bots_found(m, args0) ==
    LET response == json_loads(args0) IN
    IF response.err # "none" THEN Ok(FALSE)
    ELSE IF response.val.t # "obj" THEN Raise("AttributeError")
    ELSE AnyAccepted(response.val.items, m.bots)

\* capture_original_question keeping a question that is already stored
capture_original_question_once(m) ==
    [err |-> "none",
     m |-> IF m.original_question = Text(<<>>)
           THEN [m EXCEPT !.original_question = m.actor_input]
           ELSE m]

capture_original_question(m) ==
    [err |-> "none", m |-> [m EXCEPT !.original_question = m.actor_input]]

\* capture_answer clearing both fields when the payload does not parse
capture_answer_reset(m) ==
    LET answer_dict == json_loads(m.actor_input) IN
    IF answer_dict.err # "none"
    THEN [err |-> "none", m |-> [m EXCEPT !.answer = JStr(<<>>), !.follow_up = JStr(<<>>)]]
    ELSE LET a == GetItem(answer_dict.val, "answer") IN
         IF a.err # "none" THEN [err |-> a.err, m |-> m]
         ELSE LET m1 == [m EXCEPT !.answer = a.val]
                  f == GetItem(answer_dict.val, "follow_up")
              IN  IF f.err # "none" THEN [err |-> f.err, m |-> m1]
                  ELSE [err |-> "none", m |-> [m1 EXCEPT !.follow_up = f.val]]

capture_answer(m) ==
    LET answer_dict == json_loads(m.actor_input) IN
    IF answer_dict.err # "none" THEN [err |-> "none", m |-> m]
    ELSE LET a == GetItem(answer_dict.val, "answer") IN
         IF a.err # "none" THEN [err |-> a.err, m |-> m]
         ELSE LET m1 == [m EXCEPT !.answer = a.val]
                  f == GetItem(answer_dict.val, "follow_up")
              IN  IF f.err # "none" THEN [err |-> f.err, m |-> m1]
                  ELSE [err |-> "none", m |-> [m1 EXCEPT !.follow_up = f.val]]

\* str.splitlines(): no empty last line
RECURSIVE Split_splitlines(_)
Split_splitlines(s) ==
    IF s = <<>> THEN <<>>
    ELSE IF \A i \in 1..Len(s) : s[i] # Newline THEN <<s>>
    ELSE LET i == CHOOSE j \in 1..Len(s) :
                      s[j] = Newline /\ \A h \in 1..(j - 1) : s[h] # Newline
         IN  <<SubSeq(s, 1, i - 1)>> \o Split_splitlines(SubSeq(s, i + 1, Len(s)))

\* str.split("\n")
RECURSIVE Split(_)
Split(s) ==
    IF \A i \in 1..Len(s) : s[i] # Newline THEN <<s>>
    ELSE LET i == CHOOSE j \in 1..Len(s) :
                      s[j] = Newline /\ \A h \in 1..(j - 1) : s[h] # Newline
         IN  <<SubSeq(s, 1, i - 1)>> \o Split(SubSeq(s, i + 1, Len(s)))

\* q.replace('"', "")
StripQuotes(q) == SelectSeq(q, LAMBDA c : c # Quote)

capture_news_queries(m) ==
    LET lines == Split(m.actor_input.chars)
        queries == [i \in 1..Len(lines) |-> StripQuotes(lines[i])]
    IN  [err |-> "none", m |-> [m EXCEPT !.news_queries = queries]]

AllowList == <<"title", "url", "content", "publishedDate">>

\* len(v)
PyLen(v) ==
    CASE v.t = "arr" -> Ok(Len(v.items))
      [] v.t = "obj" -> Ok(Len(v.items))
      [] v.t = "str" -> Ok(Len(v.s))
      [] OTHER -> Raise("TypeError")

\* First taking v[-1]
First_last(v) ==
    CASE v.t = "arr" -> Ok(v.items[Len(v.items)])
      [] v.t = "str" -> Ok(JStr(<<v.s[Len(v.s)]>>))
      [] OTHER -> Raise("KeyError")

\* v[0] of a non-empty v; a mapping has no int key
First(v) ==
    CASE v.t = "arr" -> Ok(v.items[1])
      [] v.t = "str" -> Ok(JStr(<<v.s[1]>>))
      [] OTHER -> Raise("KeyError")

\* k in v for an allow-listed key k: no string over Chars equals or holds one
Contains(v, k) ==
    CASE v.t = "obj" -> Ok(HasKey(v.items, k))
      [] v.t = "arr" -> Ok(FALSE)
      [] v.t = "str" -> Ok(FALSE)
      [] OTHER -> Raise("TypeError")

\* {k: first[k] for k in AllowList if k in first}
Project(first) ==
    IF Contains(first, AllowList[1]).err # "none" THEN Raise("TypeError")
    ELSE LET keys == SelectSeq(AllowList, LAMBDA k : Contains(first, k).val)
         IN  Ok([i \in 1..Len(keys) |-> Item(keys[i], GetItem(first, keys[i]).val)])

\* one n of the comprehension: [err, keep, entry]
SourceNews(n) ==
    LET results == GetItem(n, "results") IN
    IF results.err # "none" THEN [err |-> results.err]
    ELSE LET length == PyLen(results.val) IN
         IF length.err # "none" THEN [err |-> length.err]
         ELSE IF ~(length.val > 0) THEN [err |-> "none", keep |-> FALSE]
         ELSE LET first == First(results.val) IN
              IF first.err # "none" THEN [err |-> first.err]
              ELSE LET entry == Project(first.val) IN
                   IF entry.err # "none" THEN [err |-> entry.err]
                   ELSE [err |-> "none", keep |-> TRUE, entry |-> entry.val]

RECURSIVE NewsList(_)
NewsList(elems) ==
    IF elems = <<>> THEN Ok(<<>>)
    ELSE LET h == SourceNews(Head(elems)) IN
         IF h.err # "none" THEN Raise(h.err)
         ELSE LET rest == NewsList(Tail(elems)) IN
              IF rest.err # "none" THEN rest
              ELSE Ok((IF h.keep THEN <<h.entry>> ELSE <<>>) \o rest.val)

\* for n in v: a mapping yields its keys and a str its characters, all str
Iterate(v) ==
    CASE v.t = "arr" -> Ok(v.items)
      [] v.t = "obj" -> Ok([i \in 1..Len(v.items) |-> JStr(<<v.items[i].k>>)])
      [] v.t = "str" -> Ok([i \in 1..Len(v.s) |-> JStr(<<v.s[i]>>)])
      [] OTHER -> Raise("TypeError")

capture_news(m) ==
    LET news_results == json_loads(m.actor_input) IN
    IF news_results.err # "none" THEN [err |-> "none", m |-> m]
    ELSE LET elems == Iterate(news_results.val) IN
         IF elems.err # "none" THEN [err |-> elems.err, m |-> m]
         ELSE LET lst == NewsList(elems.val) IN
              IF lst.err # "none" THEN [err |-> lst.err, m |-> m]
              ELSE [err |-> "none", m |-> [m EXCEPT !.news = lst.val]]

UnknownBotTemplate == "bots/unknown_bot.jinja2"

\* self.model.bots.get(bot_name, "bots/unknown_bot.jinja2")
BotTemplate(bts, bot_name) ==
    IF bot_name \in DOMAIN bts THEN bts[bot_name] ELSE UnknownBotTemplate

\* Rephrased collecting the accepted entries last to first
RECURSIVE Rephrased_reversed(_, _)
Rephrased_reversed(items, bts) ==
    IF items = <<>> THEN Ok(<<>>)
    ELSE LET bot_name == Head(items).k
             bot_value == Head(items).v
             c == Accepts(bot_name, bot_value, bts)
         IN  IF c.err # "none" THEN Raise(c.err)
             ELSE IF ~c.val THEN Rephrased_reversed(Tail(items), bts)
             ELSE LET reason == GetItem(bot_value, "reason") IN
                  IF reason.err # "none" THEN Raise(reason.err)
                  ELSE LET rest == Rephrased_reversed(Tail(items), bts) IN
                       IF rest.err # "none" THEN rest
                       ELSE Ok(rest.val \o
                               <<[name |-> bot_name,
                                  template |-> BotTemplate(bts, bot_name),
                                  question |-> GetItem(bot_value, "question").val,
                                  reason |-> reason.val]>>)

\* the list comprehension of on_exit_ai_decides_path over paths.items()
RECURSIVE Rephrased(_, _)
Rephrased(items, bts) ==
    IF items = <<>> THEN Ok(<<>>)
    ELSE LET bot_name == Head(items).k
             bot_value == Head(items).v
             c == Accepts(bot_name, bot_value, bts)
         IN  IF c.err # "none" THEN Raise(c.err)
             ELSE IF ~c.val THEN Rephrased(Tail(items), bts)
             ELSE LET reason == GetItem(bot_value, "reason") IN
                  IF reason.err # "none" THEN Raise(reason.err)
                  ELSE LET rest == Rephrased(Tail(items), bts) IN
                       IF rest.err # "none" THEN rest
                       ELSE Ok(<<[name |-> bot_name,
                                  template |-> BotTemplate(bts, bot_name),
                                  question |-> GetItem(bot_value, "question").val,
                                  reason |-> reason.val]>> \o rest.val)

\* on_exit_ai_decides_path returning early when the payload does not parse
on_exit_ai_decides_path_keep(m) ==
    LET loaded == json_loads(m.actor_input) IN
    IF loaded.err # "none" THEN [err |-> "none", m |-> m]
    ELSE IF loaded.val.t # "obj" THEN [err |-> "AttributeError", m |-> m]
    ELSE LET lst == Rephrased(loaded.val.items, m.bots) IN
         IF lst.err # "none" THEN [err |-> lst.err, m |-> m]
         ELSE [err |-> "none", m |-> [m EXCEPT !.rephrased_questions = lst.val]]

on_exit_ai_decides_path(m) ==
    LET loaded == json_loads(m.actor_input)
        paths == IF loaded.err # "none" THEN JObj(<<>>) ELSE loaded.val
    IN  IF paths.t # "obj" THEN [err |-> "AttributeError", m |-> m]
        ELSE LET lst == Rephrased(paths.items, m.bots) IN
             IF lst.err # "none" THEN [err |-> lst.err, m |-> m]
             ELSE [err |-> "none", m |-> [m EXCEPT !.rephrased_questions = lst.val]]

-----------------------------------------------------------------------------
(* MultiGenieMachine: states, transitions in declaration order, exit actions *)

States ==
    {"intro", "ai_decides_path", "user_views_rephrasing", "user_views_no_bots_found",
     "ai_creates_answer", "ai_creates_news_queries", "searching_news",
     "user_views_answer"}

Triggers == {"user_input", "processing_done", "advance"}

Transition(ev, src, dst, cond, unless) ==
    [event |-> ev, source |-> src, target |-> dst, cond |-> cond, unless |-> unless]

\* user_input starting over from intro once an answer is shown
user_input_restarts ==
    << Transition("user_input", "intro", "ai_decides_path", "", ""),
       Transition("user_input", "user_views_answer", "intro", "", ""),
       Transition("user_input", "user_views_no_bots_found", "ai_decides_path", "", "") >>

user_input_transitions ==
    << Transition("user_input", "intro", "ai_decides_path", "", ""),
       Transition("user_input", "user_views_answer", "ai_decides_path", "", ""),
       Transition("user_input", "user_views_no_bots_found", "ai_decides_path", "", "") >>

\* processing_done with the answer shown as soon as it is created
processing_done_skips_news ==
    << Transition("processing_done", "ai_decides_path", "user_views_rephrasing",
                  "bots_found", ""),
       Transition("processing_done", "ai_decides_path", "user_views_no_bots_found",
                  "", "bots_found"),
       Transition("processing_done", "ai_creates_answer", "user_views_answer", "", ""),
       Transition("processing_done", "ai_creates_news_queries", "searching_news", "", ""),
       Transition("processing_done", "searching_news", "user_views_answer", "", "") >>

processing_done_transitions ==
    << Transition("processing_done", "ai_decides_path", "user_views_rephrasing",
                  "bots_found", ""),
       Transition("processing_done", "ai_decides_path", "user_views_no_bots_found",
                  "", "bots_found"),
       Transition("processing_done", "ai_creates_answer", "ai_creates_news_queries",
                  "", ""),
       Transition("processing_done", "ai_creates_news_queries", "searching_news", "", ""),
       Transition("processing_done", "searching_news", "user_views_answer", "", "") >>

\* advance also declared from intro
advance_from_intro ==
    << Transition("advance", "user_views_rephrasing", "ai_creates_answer", "", ""),
       Transition("advance", "intro", "ai_creates_answer", "", "") >>

advance_transitions ==
    << Transition("advance", "user_views_rephrasing", "ai_creates_answer", "", "") >>

Transitions ==
    user_input_transitions \o processing_done_transitions \o advance_transitions

\* a template name standing alone
Single(t) == [shape |-> "template", template |-> t]

\* MapTaskTemplate(template, "<field>[*]"): one rendering per element of field
MapTaskTemplate(t, f) == [shape |-> "map_task", template |-> t, field |-> f]

\* dict(field=template, ...): one template for each named model field
Pairs(ps) == [shape |-> "pairs", pairs |-> ps]

\* [step, ...]: steps carried out one after the other
Chain(steps) == [shape |-> "chain", steps |-> steps]

\* templates with the search fanned out over answer
templates_over_answer ==
    [st \in States |->
        CASE st = "intro" -> Single("response/intro.jinja2")
          [] st = "ai_decides_path" -> Single("hyperagent/choose_bot.jinja2")
          [] st = "user_views_rephrasing" -> Single("response/user_views_rephrasing.jinja2")
          [] st = "user_views_no_bots_found" -> Single("response/no_bots.jinja2")
          [] st = "ai_creates_answer" ->
                Chain(<<MapTaskTemplate("llm_answer/ai_answers_question.jinja2",
                                        "rephrased_questions"),
                        Pairs(<<[field |-> "answer",
                                 template |-> "llm_answer/ai_consolidates_answers.jinja2"],
                                [field |-> "follow_up",
                                 template |-> "llm_converse/ai_ask_followup.jinja2"]>>)>>)
          [] st = "ai_creates_news_queries" ->
                Single("llm_converse/ai_creates_news_queries.jinja2")
          [] st = "searching_news" ->
                MapTaskTemplate("web_search/search_news.jinja2", "answer")
          [] st = "user_views_answer" -> Single("response/user_views_answer.jinja2")]

templates ==
    [st \in States |->
        CASE st = "intro" -> Single("response/intro.jinja2")
          [] st = "ai_decides_path" -> Single("hyperagent/choose_bot.jinja2")
          [] st = "user_views_rephrasing" -> Single("response/user_views_rephrasing.jinja2")
          [] st = "user_views_no_bots_found" -> Single("response/no_bots.jinja2")
          [] st = "ai_creates_answer" ->
                Chain(<<MapTaskTemplate("llm_answer/ai_answers_question.jinja2",
                                        "rephrased_questions"),
                        Pairs(<<[field |-> "answer",
                                 template |-> "llm_answer/ai_consolidates_answers.jinja2"],
                                [field |-> "follow_up",
                                 template |-> "llm_converse/ai_ask_followup.jinja2"]>>)>>)
          [] st = "ai_creates_news_queries" ->
                Single("llm_converse/ai_creates_news_queries.jinja2")
          [] st = "searching_news" ->
                MapTaskTemplate("web_search/search_news.jinja2", "news_queries")
          [] st = "user_views_answer" -> Single("response/user_views_answer.jinja2")]

\* the descriptor the engine returns for the state the machine is in
current_step_descriptor == templates[state]

\* the model fields declared as lists
ListFields == {"rephrased_questions", "news_queries", "news"}

\* ExitAction with capture_original_question on every user-facing state
ExitAction_all_views(st, m) ==
    CASE st \in {"intro", "user_views_no_bots_found", "user_views_answer",
                 "user_views_rephrasing"} ->
            capture_original_question(m)
      [] st = "ai_decides_path" -> on_exit_ai_decides_path(m)
      [] st = "ai_creates_answer" -> capture_answer(m)
      [] st = "ai_creates_news_queries" -> capture_news_queries(m)
      [] st = "searching_news" -> capture_news(m)

\* the exit callbacks of a state: exit="..." and the on_exit_<state> method
ExitAction(st, m) ==
    CASE st \in {"intro", "user_views_no_bots_found", "user_views_answer"} ->
            capture_original_question(m)
      [] st = "ai_decides_path" -> on_exit_ai_decides_path(m)
      [] st = "ai_creates_answer" -> capture_answer(m)
      [] st = "ai_creates_news_queries" -> capture_news_queries(m)
      [] st = "searching_news" -> capture_news(m)
      [] OTHER -> [err |-> "none", m |-> m]

\* cond= and unless= of one candidate transition, evaluated on the event argument
Guard(tr, m, args0) ==
    IF tr.cond = "bots_found" THEN bots_found(m, args0)
    ELSE IF tr.unless = "bots_found"
    THEN LET g == bots_found(m, args0) IN
         IF g.err # "none" THEN g ELSE Ok(~g.val)
    ELSE Ok(TRUE)

\* the first candidate, in declaration order, whose guard passes:
\* [err, found, tr]
RECURSIVE FirstMatch(_, _, _)
FirstMatch(cands, m, args0) ==
    IF cands = <<>> THEN [err |-> "none", found |-> FALSE]
    ELSE LET g == Guard(Head(cands), m, args0) IN
         IF g.err # "none" THEN [err |-> g.err, found |-> FALSE]
         ELSE IF g.val THEN [err |-> "none", found |-> TRUE, tr |-> Head(cands)]
         ELSE FirstMatch(Tail(cands), m, args0)

\* the framework hands the event argument to the exit action as actor_input
set_actor_input(m, args0) == [m EXCEPT !.actor_input = args0]

\* one event sent to the machine: [err, state, m]
Fire(st, m, trigger, args0) ==
    LET cands == SelectSeq(Transitions,
                           LAMBDA tr : tr.event = trigger /\ tr.source = st)
        match == FirstMatch(cands, m, args0)
    IN  IF match.err # "none" THEN [err |-> match.err, state |-> st, m |-> m]
        ELSE IF ~match.found THEN [err |-> "InvalidTransition", state |-> st, m |-> m]
        ELSE LET left == ExitAction(st, set_actor_input(m, args0)) IN
             IF left.err # "none" THEN [err |-> left.err, state |-> st, m |-> left.m]
             ELSE [err |-> "none", state |-> match.tr.target, m |-> left.m]

-----------------------------------------------------------------------------
(* The payloads a driver hands to the machine *)

TextPayloads == {Text(s) : s \in SeqsUpTo(Chars, MaxTextLen)}

\* what a user types, or confirms an advance with
Questions == {Text(<<"a">>), Text(<<"a", "a">>)}

Str1 == JStr(<<"a">>)

DistinctKeys(items) ==
    \A i, j \in 1..Len(items) : items[i].k = items[j].k => i = j

\* a text that is no JSON document, and one that is a JSON string literal
Malformed == {Text(<<"a">>), Text(<<Quote, Quote>>)}

NonMappings == {Doc(JNull), Doc(JNum(1)), Doc(JArr(<<>>))}

BotValues ==
    {JNull, Str1, JObj(<<>>),
     JObj(<<Item("question", JStr(<<>>))>>),
     JObj(<<Item("question", Str1)>>),
     JObj(<<Item("reason", Str1)>>),
     JObj(<<Item("question", Str1), Item("reason", Str1)>>)}

RoutingEntries ==
    {Item("Task Dictionary", v) : v \in BotValues}
        \cup {Item("Unknown Bot", JObj(<<Item("question", Str1), Item("reason", Str1)>>))}

\* every mapping of at most one entry per key
RoutingDocs ==
    {Doc(JObj(items)) : items \in {its \in SeqsUpTo(RoutingEntries, 2) : DistinctKeys(its)}}

AnswerDocs ==
    {Doc(JObj(<<>>)),
     Doc(JObj(<<Item("answer", Str1)>>)),
     Doc(JObj(<<Item("follow_up", Str1)>>)),
     Doc(JObj(<<Item("answer", Str1), Item("follow_up", Str1)>>))}

SourceEntries ==
    {JObj(<<>>),
     JObj(<<Item("results", JArr(<<>>))>>),
     JObj(<<Item("results", JNull)>>),
     JObj(<<Item("results",
                 JArr(<<JObj(<<Item("url", Str1), Item("title", Str1)>>)>>))>>),
     JObj(<<Item("results",
                 JArr(<<JObj(<<Item("title", Str1), Item("score", JNum(1))>>),
                        JObj(<<Item("content", Str1)>>)>>))>>)}

NewsDocs == {Doc(JArr(elems)) : elems \in SeqsUpTo(SourceEntries, MaxSources)}

\* the payloads offered to trigger tg in state st; an event without a
\* transition from st is rejected before its payload is read, and
\* capture_news_queries, which works on the characters, is given texts
Payloads(st, tg) ==
    IF \A i \in 1..Len(Transitions) :
           ~(Transitions[i].event = tg /\ Transitions[i].source = st)
    THEN {Text(<<>>)}
    ELSE CASE st = "ai_decides_path" -> Malformed \cup NonMappings \cup RoutingDocs
           [] st = "ai_creates_answer" -> Malformed \cup NonMappings \cup AnswerDocs
           [] st = "ai_creates_news_queries" -> TextPayloads
           [] st = "searching_news" ->
                 Malformed \cup {Doc(JNull), Doc(JObj(<<>>))} \cup NewsDocs
           [] OTHER -> Questions

-----------------------------------------------------------------------------
(* The conversation *)

\* a second model and machine, just constructed
NewPeer ==
    [state |-> "intro", m |-> NewModel,
     event |-> [trigger |-> "none", payload |-> Text(<<>>)], err |-> "none"]

Init ==
    /\ state = "intro"
    /\ original_question = Text(<<>>)
    /\ bots = DefaultBots
    /\ rephrased_questions = <<>>
    /\ answer = JStr(<<>>)
    /\ follow_up = JStr(<<>>)
    /\ news_queries = <<>>
    /\ news = <<>>
    /\ actor_input = Text(<<>>)
    /\ event = [trigger |-> "none", payload |-> Text(<<>>)]
    /\ err = "none"
    /\ peer = NewPeer
    /\ refs = [c \in Conversations |-> NewRefs(c)]

Send(trigger, args0) ==
    \E r \in {Fire(state, Model, trigger, args0)} :
        /\ event' = [trigger |-> trigger, payload |-> args0]
        /\ err' = r.err
        /\ state' = r.state
        /\ original_question' = r.m.original_question
        /\ bots' = r.m.bots
        /\ rephrased_questions' = r.m.rephrased_questions
        /\ answer' = r.m.answer
        /\ follow_up' = r.m.follow_up
        /\ news_queries' = r.m.news_queries
        /\ news' = r.m.news
        /\ actor_input' = r.m.actor_input
        /\ peer' = peer
        /\ refs' = [refs EXCEPT !["A"] = Rebound("A", refs["A"], Model, r.m)]

user_input == \E p \in Payloads(state, "user_input") : Send("user_input", p)

processing_done == \E p \in Payloads(state, "processing_done") : Send("processing_done", p)

advance == \E p \in Payloads(state, "advance") : Send("advance", p)

Next == user_input \/ processing_done \/ advance

Spec == Init /\ [][Next]_vars

\* the states each trigger is declared from
Declared(tg) ==
    CASE tg = "user_input" -> {"intro", "user_views_answer", "user_views_no_bots_found"}
      [] tg = "processing_done" ->
            {"ai_decides_path", "ai_creates_answer", "ai_creates_news_queries",
             "searching_news"}
      [] tg = "advance" -> {"user_views_rephrasing"}
      [] OTHER -> {}

\* the driver sends the trigger that is declared from the current state
accepted_trigger ==
    \E tg \in Triggers :
        /\ state \in Declared(tg)
        /\ \E p \in Payloads(state, tg) : Send(tg, p)

\* a driver that keeps supplying the accepted trigger
FairSpec == Spec /\ WF_vars(accepted_trigger)

-----------------------------------------------------------------------------
(* A conversation whose catalogue may hold a second bot, driven through    *)
(* whole rounds with every routing answer of the shape the prompt asks     *)
(* for: a mapping of bot names to {question, reason}                       *)

MaxRoutes == 3            \* entries in a routing payload

\* a catalogue passed to MultiGenieModel(bots=...) next to the default one
HelpAgentBots ==
    [b \in {"Task Dictionary", "Help Agent"} |->
        IF b = "Task Dictionary" THEN "task_dictionary/task_bot.jinja2"
        ELSE "help_agent/help_bot.jinja2"]

Catalogues == {DefaultBots, HelpAgentBots}

Route(q) == JObj(<<Item("question", q), Item("reason", Str1)>>)

RouteEntries ==
    {Item(n, Route(q)) : n \in {"Task Dictionary", "Help Agent", "Unknown Bot"},
                         q \in {JStr(<<>>), Str1}}

RouteDocs ==
    {Doc(JObj(items)) :
        items \in {its \in SeqsUpTo(RouteEntries, MaxRoutes) : DistinctKeys(its)}}

FullAnswer == Doc(JObj(<<Item("answer", Str1), Item("follow_up", Str1)>>))

OneResult ==
    Doc(JArr(<<JObj(<<Item("results",
                           JArr(<<JObj(<<Item("url", Str1), Item("title", Str1)>>)>>))>>)>>))

\* one well-formed payload for each state
RoundPayloads(st, tg) ==
    IF st \notin Declared(tg) THEN {Text(<<>>)}
    ELSE CASE st = "ai_decides_path" -> {Doc(JObj(<<Item("Task Dictionary", Route(Str1))>>))}
           [] st = "ai_creates_answer" -> {FullAnswer}
           [] st = "searching_news" -> {OneResult}
           [] OTHER -> {Text(<<"a">>)}

RoutingPayloads(st, tg) ==
    IF st = "ai_decides_path" /\ tg = "processing_done" THEN RouteDocs
    ELSE RoundPayloads(st, tg)

RoutingInit ==
    \E c \in Catalogues :
        /\ state = "intro"
        /\ original_question = Text(<<>>)
        /\ bots = c
        /\ rephrased_questions = <<>>
        /\ answer = JStr(<<>>)
        /\ follow_up = JStr(<<>>)
        /\ news_queries = <<>>
        /\ news = <<>>
        /\ actor_input = Text(<<>>)
        /\ event = [trigger |-> "none", payload |-> Text(<<>>)]
        /\ err = "none"
        /\ peer = NewPeer
        /\ refs = [cv \in Conversations |-> NewRefs(cv)]

routing_round == \E tg \in Triggers : \E p \in RoutingPayloads(state, tg) : Send(tg, p)

RoutingSpec == RoutingInit /\ [][routing_round]_vars

-----------------------------------------------------------------------------
(* A conversation driven through whole rounds with search payloads of      *)
(* several sources, each carrying a results list                           *)

MaxHits == 2              \* source entries in a search payload

Hits ==
    {JObj(<<Item("results", r)>>) :
        r \in {JArr(<<>>),
               JArr(<<JObj(<<Item("url", Str1), Item("title", Str1)>>)>>),
               JArr(<<JObj(<<Item("score", JNum(1))>>)>>),
               JArr(<<JObj(<<Item("title", Str1), Item("score", JNum(1))>>),
                      JObj(<<Item("content", Str1)>>)>>)}}

HitDocs == {Doc(JArr(elems)) : elems \in SeqsUpTo(Hits, MaxHits)}

NewsPayloads(st, tg) ==
    IF st = "searching_news" /\ tg = "processing_done" THEN HitDocs \cup {Text(<<"a">>)}
    ELSE RoundPayloads(st, tg)

news_round == \E tg \in Triggers : \E p \in NewsPayloads(state, tg) : Send(tg, p)

NewsSpec == Init /\ [][news_round]_vars

-----------------------------------------------------------------------------
(* A conversation driven through whole rounds with query texts that may    *)
(* hold blanks                                                             *)

MaxLineLen == 2           \* characters in a query text

Space == " "

QueryTexts == {Text(s) : s \in SeqsUpTo(Chars \cup {Space}, MaxLineLen)}

QueryPayloads(st, tg) ==
    IF st = "ai_creates_news_queries" /\ tg = "processing_done" THEN QueryTexts
    ELSE RoundPayloads(st, tg)

queries_round == \E tg \in Triggers : \E p \in QueryPayloads(state, tg) : Send(tg, p)

QueriesSpec == Init /\ [][queries_round]_vars

-----------------------------------------------------------------------------
(* Two conversations, each a model and a machine of its own, whose events  *)
(* arrive in any interleaving                                              *)

PairPayloads(st, tg) ==
    IF st \notin Declared(tg) THEN {Text(<<>>)}
    ELSE CASE st = "ai_decides_path" ->
                 {Doc(JObj(<<Item("Task Dictionary", Route(Str1))>>)), Doc(JObj(<<>>))}
           [] st \in Declared("user_input") -> Questions
           [] OTHER -> RoundPayloads(st, tg)

\* one event sent to the machine of the second conversation
PeerSend(trigger, args0) ==
    \E r \in {Fire(peer.state, peer.m, trigger, args0)} :
        /\ peer' = [state |-> r.state, m |-> r.m,
                    event |-> [trigger |-> trigger, payload |-> args0], err |-> r.err]
        /\ refs' = [refs EXCEPT !["B"] = Rebound("B", refs["B"], peer.m, r.m)]
        /\ UNCHANGED conversation

conversation_A == \E tg \in Triggers : \E p \in PairPayloads(state, tg) : Send(tg, p)

conversation_B ==
    \E tg \in Triggers : \E p \in PairPayloads(peer.state, tg) : PeerSend(tg, p)

PairSpec == Init /\ [][conversation_A \/ conversation_B]_vars

-----------------------------------------------------------------------------
(* Properties *)

\* the fields MultiGenieModel declares
Fields ==
    <<original_question, bots, rephrased_questions, answer, follow_up, news_queries,
      news>>

Unparseable(p) == json_loads(p).err # "none"

\* the step sends tg while the machine is in st
Sent(tg, st) == state = st /\ event'.trigger = tg

\* C1: a trigger with no declared transition out of the current state is
\* rejected with InvalidTransition, and the rejection changes neither the
\* state nor any model field (no exit action runs).
C1_InvalidTriggerRejected ==
    [][\A tg \in Triggers :
          (event'.trigger = tg /\ state \notin Declared(tg))
              => /\ err' = "InvalidTransition"
                 /\ state' = state
                 /\ Fields' = Fields
                 /\ actor_input' = actor_input]_vars

C1_Witness ==
    /\ err = "InvalidTransition"
    /\ state = "ai_decides_path"
    /\ event.trigger = "user_input"
    /\ original_question # Text(<<>>)

\* C2: processing_done fired from ai_decides_path matches exactly one of
\* its two candidates for every payload: the guard yields a truth value, the
\* event is not rejected, and the machine goes to user_views_rephrasing when
\* bots_found is true and to user_views_no_bots_found otherwise.
C2_ExactlyOneCandidate ==
    [][Sent("processing_done", "ai_decides_path")
          => LET g == bots_found(Model, event'.payload) IN
             /\ g.err = "none"
             /\ err' = "none"
             /\ state' = IF g.val THEN "user_views_rephrasing"
                         ELSE "user_views_no_bots_found"]_vars

\* C3: for every payload the guard bots_found and the filter of
\* on_exit_ai_decides_path agree: both yield a result, the guard is true iff
\* the filtered list is non-empty, and a single entry is kept by the filter
\* iff it makes the guard true on its own.
C3_GuardMatchesFilter ==
    state = "ai_decides_path"
        => /\ \A p \in Payloads("ai_decides_path", "processing_done") :
                  LET g == bots_found(Model, p)
                      x == on_exit_ai_decides_path(set_actor_input(Model, p))
                  IN  /\ g.err = "none"
                      /\ x.err = "none"
                      /\ g.val <=> x.m.rephrased_questions # <<>>
           /\ \A e \in RoutingEntries :
                  LET p == Doc(JObj(<<e>>))
                      g == bots_found(Model, p)
                      x == on_exit_ai_decides_path(set_actor_input(Model, p))
                  IN  /\ g.err = "none"
                      /\ x.err = "none"
                      /\ g.val <=> Len(x.m.rephrased_questions) = 1

\* the state a capturing state is left for when its payload does not parse
DestinationOf(st) ==
    CASE st = "ai_decides_path" -> "user_views_no_bots_found"
      [] st = "ai_creates_answer" -> "ai_creates_news_queries"
      [] st = "searching_news" -> "user_views_answer"

ParsingStates == {"ai_decides_path", "ai_creates_answer", "searching_news"}

C5_NoPartialWrite ==
    [][Sent("processing_done", "ai_creates_answer")
          => \/ answer' = answer /\ follow_up' = follow_up
             \/ LET d == json_loads(event'.payload) IN
                /\ d.err = "none"
                /\ GetItem(d.val, "answer").err = "none"
                /\ GetItem(d.val, "follow_up").err = "none"
                /\ answer' = GetItem(d.val, "answer").val
                /\ follow_up' = GetItem(d.val, "follow_up").val]_vars

\* C6: whatever the payload, the only failure of a send is
\* InvalidTransition for a trigger not declared from the current state;
\* guards and exit actions never raise.
C6_NoErrorSurfaces ==
    \/ err = "none"
    \/ err = "InvalidTransition" /\ state \notin Declared(event.trigger)

\* C7: every entry of rephrased_questions names a known bot, has a
\* non-empty question and carries that bot's template, never the fallback
\* template of an unknown bot.
C7_RephrasedKnownBots ==
    \A i \in 1..Len(rephrased_questions) :
        LET e == rephrased_questions[i] IN
        /\ e.name \in DOMAIN bots
        /\ Truthy(e.question)
        /\ e.template = bots[e.name]
        /\ e.template # UnknownBotTemplate

C7_Witness ==
    /\ state = "user_views_rephrasing"
    /\ event.trigger = "processing_done"
    /\ err = "none"
    /\ rephrased_questions # <<>>
    /\ event.payload.kind = "doc"
    /\ \E i \in 1..Len(event.payload.val.items) :
           event.payload.val.items[i].k \notin DOMAIN bots

\* C8 as stated: processing_done from ai_decides_path with a payload for
\* which bots_found is false moves to user_views_no_bots_found and leaves
\* rephrased_questions as it was before the call.
C8_Original ==
    [][(Sent("processing_done", "ai_decides_path")
            /\ bots_found(Model, event'.payload) = Ok(FALSE))
          => /\ state' = "user_views_no_bots_found"
             /\ rephrased_questions' = rephrased_questions]_vars

\* C8 as amended: processing_done from ai_decides_path with a payload for
\* which bots_found is false moves to user_views_no_bots_found and leaves
\* rephrased_questions empty, whatever it was before the call.
C8_NoBotsClearsRephrased ==
    [][(Sent("processing_done", "ai_decides_path")
            /\ bots_found(Model, event'.payload) = Ok(FALSE))
          => /\ state' = "user_views_no_bots_found"
             /\ err' = "none"
             /\ rephrased_questions' = <<>>]_vars

C8_Witness ==
    /\ state = "user_views_no_bots_found"
    /\ event.trigger = "processing_done"
    /\ event.payload = Doc(JObj(<<>>))
    /\ rephrased_questions = <<>>
    /\ news # <<>>

\* C9: processing_done from ai_creates_answer with a payload that does not
\* parse still moves to ai_creates_news_queries and keeps answer and
\* follow_up; answer and follow_up are overwritten only when the payload
\* parses as a mapping holding both answer and follow_up.
C9_AnswerOnlyFromShape ==
    [][Sent("processing_done", "ai_creates_answer")
          => LET d == json_loads(event'.payload) IN
             /\ d.err # "none"
                    => /\ state' = "ai_creates_news_queries"
                       /\ answer' = answer
                       /\ follow_up' = follow_up
             /\ (answer' # answer \/ follow_up' # follow_up)
                    => /\ d.err = "none"
                       /\ GetItem(d.val, "answer").err = "none"
                       /\ GetItem(d.val, "follow_up").err = "none"]_vars

\* C10: a step changes only the fields owned by the exit action of the
\* state it leaves (none when leaving user_views_rephrasing, none when the
\* event is rejected or the guard decides), and never changes bots.
C10_FrameOfExitActions ==
    [][/\ bots' = bots
       /\ original_question' # original_question
              => state \in {"intro", "user_views_answer", "user_views_no_bots_found"}
       /\ rephrased_questions' # rephrased_questions => state = "ai_decides_path"
       /\ (answer' # answer \/ follow_up' # follow_up) => state = "ai_creates_answer"
       /\ news_queries' # news_queries => state = "ai_creates_news_queries"
       /\ news' # news => state = "searching_news"]_vars

C10_Witness ==
    /\ state = "ai_creates_answer"
    /\ event.trigger = "advance"
    /\ err = "none"
    /\ actor_input = event.payload
    /\ original_question # actor_input
    /\ news # <<>>

\* C11: user_input from intro, user_views_answer or user_views_no_bots_found
\* with payload p moves to ai_decides_path and sets original_question to p;
\* no other step changes original_question, so that in every machine-driven
\* state it is the payload of the most recent accepted user_input.
C11_QuestionIsLastUserInput ==
    [][/\ (event'.trigger = "user_input" /\ state \in Declared("user_input"))
              => /\ err' = "none"
                 /\ state' = "ai_decides_path"
                 /\ original_question' = event'.payload
       /\ original_question' # original_question
              => /\ event'.trigger = "user_input"
                 /\ state \in Declared("user_input")
                 /\ original_question' = event'.payload]_vars

C11_Witness ==
    /\ state = "ai_decides_path"
    /\ event.trigger = "user_input"
    /\ err = "none"
    /\ original_question = event.payload
    /\ original_question = Text(<<"a", "a">>)
    /\ news # <<>>

\* the entries of a routing payload in which every value is a mapping
\* holding question and reason
WellShaped(p) ==
    /\ p.kind = "doc"
    /\ p.val.t = "obj"
    /\ \A i \in 1..Len(p.val.items) :
           /\ p.val.items[i].v.t = "obj"
           /\ HasKey(p.val.items[i].v.items, "question")
           /\ HasKey(p.val.items[i].v.items, "reason")

\* one record per entry of a known bot with a non-empty question, in the
\* order of the payload
ExpectedRoutes(items, bts) ==
    LET kept == SelectSeq(items,
                          LAMBDA e : /\ e.k \in DOMAIN bts
                                     /\ Lookup(e.v.items, "question") # JStr(<<>>))
    IN  [i \in 1..Len(kept) |->
            [name |-> kept[i].k,
             template |-> bts[kept[i].k],
             question |-> Lookup(kept[i].v.items, "question"),
             reason |-> Lookup(kept[i].v.items, "reason")]]

\* C12: processing_done from ai_decides_path with a payload mapping bot
\* names to {question, reason} leaves in rephrased_questions exactly one
\* record {name, template = bots[name], question, reason} per entry of a
\* known bot with a non-empty question, in payload order, and moves to
\* user_views_rephrasing when that list is non-empty.
C12_RephrasedInPayloadOrder ==
    [][(Sent("processing_done", "ai_decides_path") /\ WellShaped(event'.payload))
          => /\ err' = "none"
             /\ rephrased_questions' = ExpectedRoutes(event'.payload.val.items, bots)
             /\ rephrased_questions' # <<>> => state' = "user_views_rephrasing"]_vars

C12_Witness ==
    /\ state = "user_views_rephrasing"
    /\ event.trigger = "processing_done"
    /\ err = "none"
    /\ Len(event.payload.val.items) = 3
    /\ event.payload.val.items[2].k = "Unknown Bot"
    /\ Len(rephrased_questions) = 2
    /\ rephrased_questions[1].name = "Help Agent"
    /\ rephrased_questions[2].name = "Task Dictionary"

\* a search payload: a list of source entries, each a mapping whose results
\* is a list of mappings
SourcesShape(p) ==
    /\ p.kind = "doc"
    /\ p.val.t = "arr"
    /\ \A i \in 1..Len(p.val.items) :
           LET n == p.val.items[i] IN
           /\ n.t = "obj"
           /\ HasKey(n.items, "results")
           /\ Lookup(n.items, "results").t = "arr"
           /\ \A j \in 1..Len(Lookup(n.items, "results").items) :
                  Lookup(n.items, "results").items[j].t = "obj"

\* the mapping entry is the mapping first restricted to the allow-listed keys
RestrictionOf(entry, first) ==
    /\ DistinctKeys(entry)
    /\ \A i \in 1..Len(entry) :
           /\ entry[i].k \in {"title", "url", "content", "publishedDate"}
           /\ HasKey(first.items, entry[i].k)
           /\ entry[i].v = Lookup(first.items, entry[i].k)
    /\ \A k \in {"title", "url", "content", "publishedDate"} :
           HasKey(first.items, k) => HasKey(entry, k)

\* C13: processing_done from searching_news with a list of source entries
\* each carrying a results list leaves in news, in payload order, one record
\* per source entry with at least one result: its first result restricted to
\* the keys title, url, content, publishedDate it contains; entries without
\* results contribute nothing, and no other step changes news.
C13_NewsFromFirstResults ==
    [][/\ (Sent("processing_done", "searching_news") /\ SourcesShape(event'.payload))
              => LET with == SelectSeq(event'.payload.val.items,
                                       LAMBDA n : Lookup(n.items, "results").items # <<>>)
                 IN  /\ err' = "none"
                     /\ state' = "user_views_answer"
                     /\ Len(news') = Len(with)
                     /\ \A i \in 1..Len(with) :
                            RestrictionOf(news'[i],
                                          Lookup(with[i].items, "results").items[1])
       /\ news' # news
              => /\ Sent("processing_done", "searching_news")
                 /\ json_loads(event'.payload).err = "none"]_vars

C13_Witness ==
    /\ state = "user_views_answer"
    /\ event.trigger = "processing_done"
    /\ err = "none"
    /\ SourcesShape(event.payload)
    /\ Len(event.payload.val.items) = 2
    /\ Lookup(event.payload.val.items[1].items, "results").items = <<>>
    /\ Len(Lookup(event.payload.val.items[2].items, "results").items) = 2
    /\ Len(news) = 1
    /\ Len(news[1]) = 1
    /\ news[1][1].k = "title"

\* "\n".join(qs) of a non-empty list
RECURSIVE JoinLines(_)
JoinLines(qs) ==
    IF Len(qs) = 1 THEN qs[1]
    ELSE qs[1] \o <<Newline>> \o JoinLines(Tail(qs))

\* the lines of p are stored in order, as many as p has lines and each
\* without its double quotes
UnquotedLines(p, queries) ==
    /\ Len(queries) = 1 + Cardinality({i \in 1..Len(p) : p[i] = Newline})
    /\ \A i \in 1..Len(queries) :
           \A j \in 1..Len(queries[i]) : queries[i][j] \notin {Newline, Quote}
    /\ JoinLines(queries) = SelectSeq(p, LAMBDA c : c # Quote)

\* C14 as stated: processing_done from ai_creates_news_queries with payload
\* p leaves in news_queries the newline-separated lines of p, in order and
\* with the same count, each with every double quote removed; the list has
\* at least one element, and an empty or blank line is stored as an empty
\* query.
C14_Original ==
    [][Sent("processing_done", "ai_creates_news_queries")
          => LET p == event'.payload.chars IN
             /\ err' = "none"
             /\ state' = "searching_news"
             /\ UnquotedLines(p, news_queries')
             /\ \A i \in 1..Len(news_queries') :
                    (\A j \in 1..Len(Split(p)[i]) : Split(p)[i][j] = Space)
                        => news_queries'[i] = <<>>]_vars

\* C14 as amended: processing_done from ai_creates_news_queries with
\* payload p leaves in news_queries the newline-separated lines of p, in
\* order and with the same count, each with every double quote removed and
\* nothing else: the list has at least one element, an empty line is stored
\* as an empty query and a line of blanks is stored as it is; no stored
\* query ever holds a quote.
C14_QueriesAreUnquotedLines ==
    [][/\ Sent("processing_done", "ai_creates_news_queries")
              => LET p == event'.payload.chars IN
                 /\ err' = "none"
                 /\ state' = "searching_news"
                 /\ UnquotedLines(p, news_queries')
       /\ \A i \in 1..Len(news_queries') :
              \A j \in 1..Len(news_queries'[i]) : news_queries'[i][j] # Quote]_vars

C14_Witness ==
    /\ state = "searching_news"
    /\ event.trigger = "processing_done"
    /\ err = "none"
    /\ event.payload = Text(<<Space, Newline>>)
    /\ news_queries = << <<Space>>, <<>> >>

\* no container object is held by both conversations
NoAlias ==
    \A f, g \in ContainerFields : refs["A"][f] # refs["B"][g]

\* a step of the second conversation run on its own
PeerAlone ==
    \E tg \in Triggers : \E p \in Payloads(peer.state, tg) :
        \E r \in {Fire(peer.state, peer.m, tg, p)} :
            peer' = [state |-> r.state, m |-> r.m,
                     event |-> [trigger |-> tg, payload |-> p], err |-> r.err]

FanOuts(d) ==
    IF d.shape = "map_task" THEN {d}
    ELSE IF d.shape = "chain"
    THEN {d.steps[i] : i \in {j \in 1..Len(d.steps) : d.steps[j].shape = "map_task"}}
    ELSE {}

\* C16 as stated: every state has an entry in the step descriptor table,
\* the entry is exactly one of a single template, a list of (model field,
\* template) pairs, or a single map-task fan-out, and every fan-out points
\* to a list-valued model field.
C16_Original ==
    /\ DOMAIN templates = States
    /\ current_step_descriptor.shape \in {"template", "pairs", "map_task"}
    /\ \A fo \in FanOuts(current_step_descriptor) : fo.field \in ListFields

\* one of the three shapes, or the two steps of ai_creates_answer
ShapeOfState ==
    LET d == current_step_descriptor IN
    IF state = "ai_creates_answer"
    THEN /\ d.shape = "chain"
         /\ Len(d.steps) = 2
         /\ d.steps[1].shape = "map_task"
         /\ d.steps[2].shape = "pairs"
         /\ \A i \in 1..Len(d.steps[2].pairs) :
                d.steps[2].pairs[i].field \in {"answer", "follow_up"}
    ELSE d.shape \in {"template", "pairs", "map_task"}

\* C16 as amended: every one of the eight states has an entry in the step
\* descriptor table.  The entry of ai_creates_answer is a list of two steps,
\* a map-task fan-out followed by (model field, template) pairs for answer
\* and follow_up; every other entry is a single template, a list of pairs or
\* a single fan-out.  Every fan-out points to a list-valued model field, and
\* the descriptor changes only when the state does.
C16_DescriptorShapes ==
    /\ [](/\ DOMAIN templates = States
          /\ ShapeOfState
          /\ \A fo \in FanOuts(current_step_descriptor) : fo.field \in ListFields)
    /\ [][state' = state => current_step_descriptor' = current_step_descriptor]_vars

C16_Witness ==
    /\ state = "ai_creates_answer"
    /\ current_step_descriptor.shape = "chain"
    /\ FanOuts(current_step_descriptor) # {}
    /\ rephrased_questions # <<>>

\* the step enters state to, coming from another state
Enters(to) == state' = to /\ state # to

\* C17: user_views_answer is entered only from searching_news, that only
\* from ai_creates_news_queries, that only from ai_creates_answer, that only
\* by an advance from user_views_rephrasing, that only from ai_decides_path,
\* and ai_decides_path only by a user_input from a state awaiting one; the
\* machine-driven steps are processing_done steps that end without error.
\* So every round runs through the pipeline in this order, skipping and
\* repeating nothing.
C17_PipelineOrder ==
    [][/\ Enters("user_views_answer")
              => state = "searching_news" /\ event'.trigger = "processing_done"
       /\ Enters("searching_news")
              => state = "ai_creates_news_queries" /\ event'.trigger = "processing_done"
       /\ Enters("ai_creates_news_queries")
              => state = "ai_creates_answer" /\ event'.trigger = "processing_done"
       /\ Enters("ai_creates_answer")
              => state = "user_views_rephrasing" /\ event'.trigger = "advance"
       /\ Enters("user_views_rephrasing")
              => state = "ai_decides_path" /\ event'.trigger = "processing_done"
       /\ Enters("user_views_no_bots_found")
              => state = "ai_decides_path" /\ event'.trigger = "processing_done"
       /\ Enters("ai_decides_path")
              => /\ state \in {"intro", "user_views_answer", "user_views_no_bots_found"}
                 /\ event'.trigger = "user_input"
       /\ state' # state => err' = "none"
       /\ state' = state => err' # "none"]_vars

C17_Witness ==
    /\ state = "user_views_answer"
    /\ event.trigger = "processing_done"
    /\ err = "none"
    /\ news_queries # <<>>
    /\ answer # JStr(<<>>)
    /\ rephrased_questions # <<>>
    /\ original_question # Text(<<>>)

MachineDriven ==
    {"ai_decides_path", "ai_creates_answer", "ai_creates_news_queries", "searching_news"}

UserAwaiting == {"user_views_rephrasing", "user_views_no_bots_found", "user_views_answer"}

\* the triggers with a transition out of st
AcceptedIn(st) ==
    {tg \in Triggers :
        \E i \in 1..Len(Transitions) :
            Transitions[i].event = tg /\ Transitions[i].source = st}

\* C18: the conversation is never stranded: in every reachable state
\* exactly one trigger is accepted, and when the driver keeps supplying the
\* accepted trigger, whatever the payloads, every machine-driven state is
\* followed by a state that awaits the user.
C18_NeverStranded ==
    /\ [](Cardinality(AcceptedIn(state)) = 1)
    /\ (state \in MachineDriven) ~> (state \in UserAwaiting)

\* C19: the routing decision and the stored routes agree: after any
\* processing_done from ai_decides_path the guard has decided for
\* user_views_rephrasing iff rephrased_questions is non-empty, and the
\* machine is in user_views_rephrasing iff it is; so rephrased_questions is
\* non-empty whenever the machine is in user_views_rephrasing or
\* ai_creates_answer and empty in user_views_no_bots_found.
C19_RoutesAgreeWithDecision ==
    /\ [][Sent("processing_done", "ai_decides_path")
              => /\ bots_found(Model, event'.payload) = Ok(TRUE)
                        <=> rephrased_questions' # <<>>
                 /\ state' = "user_views_rephrasing"
                        <=> rephrased_questions' # <<>>]_vars
    /\ [](state \in {"user_views_rephrasing", "ai_creates_answer"}
              => rephrased_questions # <<>>)
    /\ [](state = "user_views_no_bots_found" => rephrased_questions = <<>>)

\* C20: intro is only the initial state: no transition leads to intro, the
\* machine leaves it by the first accepted user_input and is never in it
\* again, so that in intro nothing has been captured yet and every later
\* user_input is accepted from user_views_answer or
\* user_views_no_bots_found.
C20_IntroOnlyInitial ==
    /\ [](/\ \A i \in 1..Len(Transitions) : Transitions[i].target # "intro"
          /\ (state = "intro")
                 => (Fields = <<Text(<<>>), DefaultBots, <<>>, JStr(<<>>), JStr(<<>>),
                                <<>>, <<>>>>))
    /\ [][/\ (state # "intro") => (state' # "intro")
          /\ (state = "intro" /\ state' # "intro")
                 => (event'.trigger = "user_input" /\ state' = "ai_decides_path")
          /\ (event'.trigger = "user_input" /\ err' = "none" /\ state # "intro")
                 => (state \in {"user_views_answer", "user_views_no_bots_found"})]_vars

\* a second round that ends without bots after a first one that went through
\* the whole pipeline: every one of the eight states has been visited
C20_Witness ==
    /\ state = "user_views_no_bots_found"
    /\ event.trigger = "processing_done"
    /\ err = "none"
    /\ news # <<>>
    /\ news_queries # <<>>
    /\ answer # JStr(<<>>)
    /\ original_question = Text(<<"a", "a">>)

====
